---------------------------- MODULE Spec2Model ----------------------------
(***************************************************************************)
(* Model of the artwork detail page of PrimeProvenance-ArP                 *)
(* (ArtworkDetailPage.tsx): the date helpers, the provenance comparator,   *)
(* the artist section, the external links with the sameAs list of          *)
(* JsonLdScript.tsx, and fetchArtwork with its overlapping invocations;    *)
(* and of the URL parameters and requests of the search page               *)
(* (SearchPage.tsx).                                                       *)
(*                                                                         *)
(* A JavaScript string is a sequence of one-character strings, so that the *)
(* regular expressions of extractYear and String.prototype.localeCompare   *)
(* are computed character by character.  A ProvenanceRecord is a record    *)
(* whose optional properties are optional fields: `a.order !== undefined`  *)
(* is "order" \in DOMAIN a.                                                *)
(***************************************************************************)
EXTENDS Integers, Sequences, FiniteSets, Bags, TLC

VARIABLES
    provenanceResponse,  \* the settled promise of artworkApi.getProvenance(id)
    provenance,          \* useState<ProvenanceRecord[]>([])
    pc,                  \* position of fetchArtwork after Promise.allSettled
    enrichment,          \* useState<ArtworkEnrichment | null>(null)
    artwork,             \* useState<Artwork | null>(null)
    externalLinks,       \* const externalLinks = getExternalLinks()
    artistInfo,          \* the rendered "About the Artist" block
    dateInput,           \* the argument of a call of extractYear
    yearResult,          \* what that call returned
    formatted,           \* what a call of formatDate with that argument returned
    sameAs,              \* jsonLd.sameAs as generateJsonLd writes it
    id,                  \* const { id } = useParams()
    loading,             \* useState(true)
    error,               \* useState<string | null>(null)
    notFound,            \* useState(false)
    fetches,             \* the calls of fetchArtwork and where each one stands
    searchParams,        \* useSearchParams(): the query string of the URL
    searchQuery,         \* SearchPage: useState(searchParams.get("q") || "")
    filters,             \* SearchPage: useState<SearchFilters>
    sortBy,              \* SearchPage: useState<"title" | "date">
    searchResponse,      \* SearchPage: useState<SearchResponse | null>(null)
    isSearching,         \* SearchPage: useState(false)
    searchError,         \* SearchPage: error, useState<string | null>(null)
    searches             \* the calls of searchApi.search and whether each settled

provenanceVars == <<provenanceResponse, provenance>>

pageVars == <<enrichment, artwork, externalLinks, artistInfo, sameAs>>

yearVars == <<dateInput, yearResult, formatted>>

fetchVars == <<id, loading, error, notFound, fetches>>

searchVars == <<searchParams, searchQuery, filters, sortBy, searchResponse,
                isSearching, searchError, searches>>

vars == <<provenanceResponse, provenance, pc, enrichment, artwork, externalLinks,
          artistInfo, dateInput, yearResult, formatted, sameAs,
          id, loading, error, notFound, fetches,
          searchParams, searchQuery, filters, sortBy, searchResponse,
          isSearching, searchError, searches>>

-----------------------------------------------------------------------------
(* Bounds *)

MaxEvents == 3

-----------------------------------------------------------------------------
(* Characters *)

Digits == {"0", "1", "2", "3", "4", "5", "6", "7", "8", "9"}

DigitValue(c) ==
    CASE c = "0" -> 0 [] c = "1" -> 1 [] c = "2" -> 2 [] c = "3" -> 3
      [] c = "4" -> 4 [] c = "5" -> 5 [] c = "6" -> 6 [] c = "7" -> 7
      [] c = "8" -> 8 [] c = "9" -> 9

\* \d
IsDigit(c) == c \in Digits

\* \s (the only white space of the modelled texts is the space)
IsSpace(c) == c = " "

UpperCase == {"C", "U"}

ToLowerCase(c) ==
    CASE c = "C" -> "c" [] c = "U" -> "u" [] OTHER -> c

Letters == {"a", "b", "c", "e", "i", "k", "n", "o", "r", "t", "u", "w", "y"}

\* \w, as \b reads it
IsWordChar(c) == IsDigit(c) \/ ToLowerCase(c) \in Letters \/ c = "_"

\* parseInt(text, 10) of a run of four digits starting at p
ParseInt4(s, p) ==
    DigitValue(s[p]) * 1000 + DigitValue(s[p + 1]) * 100
        + DigitValue(s[p + 2]) * 10 + DigitValue(s[p + 3])

\* (\d{4}) matches at position p
FourDigitsAt(s, p) ==
    /\ p >= 1
    /\ p + 3 <= Len(s)
    /\ \A k \in p..(p + 3) : IsDigit(s[k])

Min(S) == CHOOSE x \in S : \A y \in S : x <= y
Max(S) == CHOOSE x \in S : \A y \in S : x >= y

-----------------------------------------------------------------------------
(* extractYear *)

Null == -1   \* extractYear's null; every year it returns is in 0..9999

\* /c\.?\s*(\d{4})/i matched with the "c" at position p: the position of the
\* captured digits, or 0.  "." , white space and digits are disjoint classes, so
\* the greedy \.? and \s* never need to give a character back.
CircaDigitsAt(s, p) ==
    IF ~(p <= Len(s) /\ ToLowerCase(s[p]) = "c") THEN 0
    ELSE LET afterDot == IF p + 1 <= Len(s) /\ s[p + 1] = "." THEN p + 2 ELSE p + 1
             nonSpace == {q \in afterDot..Len(s) : ~IsSpace(s[q])}
             d        == IF nonSpace = {} THEN Len(s) + 1 ELSE Min(nonSpace)
         IN  IF FourDigitsAt(s, d) THEN d ELSE 0

\* /\b(\d{4})\b/ matches with the digits at position p
StandaloneYearAt(s, p) ==
    /\ FourDigitsAt(s, p)
    /\ (p = 1 \/ ~IsWordChar(s[p - 1]))
    /\ (p + 4 > Len(s) \/ ~IsWordChar(s[p + 4]))

extractYearZeroDefault(dateStr) ==
    IF FourDigitsAt(dateStr, 1) THEN ParseInt4(dateStr, 1)
    ELSE LET circa == {p \in 1..Len(dateStr) : CircaDigitsAt(dateStr, p) # 0}
         IN  IF circa # {} THEN ParseInt4(dateStr, CircaDigitsAt(dateStr, Min(circa)))
             ELSE LET year == {p \in 1..Len(dateStr) : StandaloneYearAt(dateStr, p)}
                  IN  IF year # {} THEN ParseInt4(dateStr, Min(year))
                      ELSE 0

extractYearCircaFirst(dateStr) ==
    LET circa == {p \in 1..Len(dateStr) : CircaDigitsAt(dateStr, p) # 0}
    IN  IF circa # {} THEN ParseInt4(dateStr, CircaDigitsAt(dateStr, Min(circa)))
        ELSE IF FourDigitsAt(dateStr, 1) THEN ParseInt4(dateStr, 1)
        ELSE LET year == {p \in 1..Len(dateStr) : StandaloneYearAt(dateStr, p)}
             IN  IF year # {} THEN ParseInt4(dateStr, Min(year))
                 ELSE Null

extractYear(dateStr) ==
    IF FourDigitsAt(dateStr, 1) THEN ParseInt4(dateStr, 1)
    ELSE LET circa == {p \in 1..Len(dateStr) : CircaDigitsAt(dateStr, p) # 0}
         IN  IF circa # {} THEN ParseInt4(dateStr, CircaDigitsAt(dateStr, Min(circa)))
             ELSE LET year == {p \in 1..Len(dateStr) : StandaloneYearAt(dateStr, p)}
                  IN  IF year # {} THEN ParseInt4(dateStr, Min(year))
                      ELSE Null


-----------------------------------------------------------------------------
(* String.prototype.localeCompare *)

\* The characters of the modelled texts in the order of the default (root/en)
\* collation: white space, punctuation, digits, letters.
CollationOrder ==
    <<" ", "_", "-", ".", "0", "1", "2", "3", "4", "5", "6", "7", "8", "9",
      "a", "b", "c", "e", "i", "k", "n", "o", "r", "t", "u", "w", "y">>

\* primary strength: the letter, whatever its case
PrimaryWeight(c) ==
    CHOOSE i \in 1..Len(CollationOrder) : CollationOrder[i] = ToLowerCase(c)

\* tertiary strength: lower case before upper case
TertiaryWeight(c) == IF c \in UpperCase THEN 1 ELSE 0

\* the first difference of the two weight sequences decides, then the length
CompareWeights(wa, wb) ==
    LET n    == Min({Len(wa), Len(wb)})
        diff == {i \in 1..n : wa[i] # wb[i]}
    IN  IF diff # {}
        THEN IF wa[Min(diff)] < wb[Min(diff)] THEN -1 ELSE 1
        ELSE IF Len(wa) < Len(wb) THEN -1
        ELSE IF Len(wa) > Len(wb) THEN 1
        ELSE 0

PrimaryWeights(s) == [i \in DOMAIN s |-> PrimaryWeight(s[i])]

TertiaryWeights(s) == [i \in DOMAIN s |-> TertiaryWeight(s[i])]

\* a.localeCompare(b): all primary weights are compared before any case
localeCompare(a, b) ==
    LET primary == CompareWeights(PrimaryWeights(a), PrimaryWeights(b))
    IN  IF primary # 0 THEN primary
        ELSE CompareWeights(TertiaryWeights(a), TertiaryWeights(b))

-----------------------------------------------------------------------------
(* The provenance comparator and Array.prototype.sort *)

\* a.order !== undefined
HasOrder(a) == "order" \in DOMAIN a

\* a.date is truthy: present and not the empty string
HasDate(a) == "date" \in DOMAIN a /\ a.date # <<>>

\* Variants of the comparator, each with one plausible slip.

\* order tested for truthiness (`if (a.order && b.order)`): order 0 reads as absent
compareOrderTruthy(a, b) ==
    LET hasA == HasOrder(a) /\ a.order # 0
        hasB == HasOrder(b) /\ b.order # 0
    IN  IF hasA /\ hasB THEN a.order - b.order
        ELSE IF hasA THEN -1
        ELSE IF hasB THEN 1
        ELSE IF HasDate(a) /\ HasDate(b)
             THEN LET yearA == extractYear(a.date)
                      yearB == extractYear(b.date)
                  IN  IF yearA # Null /\ yearB # Null THEN yearA - yearB
                      ELSE IF yearA # Null THEN -1
                      ELSE IF yearB # Null THEN 1
                      ELSE localeCompare(a.date, b.date)
        ELSE IF HasDate(a) THEN -1
        ELSE IF HasDate(b) THEN 1
        ELSE 0

\* the operands of the order subtraction swapped (`b.order - a.order`)
compareOrderDescending(a, b) ==
    IF HasOrder(a) /\ HasOrder(b) THEN b.order - a.order
    ELSE IF HasOrder(a) THEN -1
    ELSE IF HasOrder(b) THEN 1
    ELSE IF HasDate(a) /\ HasDate(b)
         THEN LET yearA == extractYear(a.date)
                  yearB == extractYear(b.date)
              IN  IF yearA # Null /\ yearB # Null THEN yearA - yearB
                  ELSE IF yearA # Null THEN -1
                  ELSE IF yearB # Null THEN 1
                  ELSE localeCompare(a.date, b.date)
    ELSE IF HasDate(a) THEN -1
    ELSE IF HasDate(b) THEN 1
    ELSE 0

\* the "only b has order" case forgotten
compareNoOnlyB(a, b) ==
    IF HasOrder(a) /\ HasOrder(b) THEN a.order - b.order
    ELSE IF HasOrder(a) THEN -1
    ELSE IF HasDate(a) /\ HasDate(b)
         THEN LET yearA == extractYear(a.date)
                  yearB == extractYear(b.date)
              IN  IF yearA # Null /\ yearB # Null THEN yearA - yearB
                  ELSE IF yearA # Null THEN -1
                  ELSE IF yearB # Null THEN 1
                  ELSE localeCompare(a.date, b.date)
    ELSE IF HasDate(a) THEN -1
    ELSE IF HasDate(b) THEN 1
    ELSE 0

\* no tie: two records without order and date answer 1 instead of 0
compareNoTie(a, b) ==
    IF HasOrder(a) /\ HasOrder(b) THEN a.order - b.order
    ELSE IF HasOrder(a) THEN -1
    ELSE IF HasOrder(b) THEN 1
    ELSE IF HasDate(a) /\ HasDate(b)
         THEN LET yearA == extractYear(a.date)
                  yearB == extractYear(b.date)
              IN  IF yearA # Null /\ yearB # Null THEN yearA - yearB
                  ELSE IF yearA # Null THEN -1
                  ELSE IF yearB # Null THEN 1
                  ELSE localeCompare(a.date, b.date)
    ELSE IF HasDate(a) THEN -1
    ELSE 1

\* equal years settled by the date text instead of answering 0
compareYearThenText(a, b) ==
    IF HasOrder(a) /\ HasOrder(b) THEN a.order - b.order
    ELSE IF HasOrder(a) THEN -1
    ELSE IF HasOrder(b) THEN 1
    ELSE IF HasDate(a) /\ HasDate(b)
         THEN LET yearA == extractYear(a.date)
                  yearB == extractYear(b.date)
              IN  IF yearA # Null /\ yearB # Null
                  THEN IF yearA # yearB THEN yearA - yearB
                       ELSE localeCompare(a.date, b.date)
                  ELSE IF yearA # Null THEN -1
                  ELSE IF yearB # Null THEN 1
                  ELSE localeCompare(a.date, b.date)
    ELSE IF HasDate(a) THEN -1
    ELSE IF HasDate(b) THEN 1
    ELSE 0

\* the operands of the year subtraction swapped (`yearB - yearA`)
compareYearDescending(a, b) ==
    IF HasOrder(a) /\ HasOrder(b) THEN a.order - b.order
    ELSE IF HasOrder(a) THEN -1
    ELSE IF HasOrder(b) THEN 1
    ELSE IF HasDate(a) /\ HasDate(b)
         THEN LET yearA == extractYear(a.date)
                  yearB == extractYear(b.date)
              IN  IF yearA # Null /\ yearB # Null THEN yearB - yearA
                  ELSE IF yearA # Null THEN -1
                  ELSE IF yearB # Null THEN 1
                  ELSE localeCompare(a.date, b.date)
    ELSE IF HasDate(a) THEN -1
    ELSE IF HasDate(b) THEN 1
    ELSE 0

\* the two "only one year parses" returns forgotten: the texts are compared
compareNoYearPriority(a, b) ==
    IF HasOrder(a) /\ HasOrder(b) THEN a.order - b.order
    ELSE IF HasOrder(a) THEN -1
    ELSE IF HasOrder(b) THEN 1
    ELSE IF HasDate(a) /\ HasDate(b)
         THEN LET yearA == extractYear(a.date)
                  yearB == extractYear(b.date)
              IN  IF yearA # Null /\ yearB # Null THEN yearA - yearB
                  ELSE localeCompare(a.date, b.date)
    ELSE IF HasDate(a) THEN -1
    ELSE IF HasDate(b) THEN 1
    ELSE 0

\* receiver and argument of localeCompare swapped (`b.date.localeCompare(a.date)`)
compareTextReversed(a, b) ==
    IF HasOrder(a) /\ HasOrder(b) THEN a.order - b.order
    ELSE IF HasOrder(a) THEN -1
    ELSE IF HasOrder(b) THEN 1
    ELSE IF HasDate(a) /\ HasDate(b)
         THEN LET yearA == extractYear(a.date)
                  yearB == extractYear(b.date)
              IN  IF yearA # Null /\ yearB # Null THEN yearA - yearB
                  ELSE IF yearA # Null THEN -1
                  ELSE IF yearB # Null THEN 1
                  ELSE localeCompare(b.date, a.date)
    ELSE IF HasDate(a) THEN -1
    ELSE IF HasDate(b) THEN 1
    ELSE 0

\* the two "push records without date to end" returns forgotten
compareNoDatePush(a, b) ==
    IF HasOrder(a) /\ HasOrder(b) THEN a.order - b.order
    ELSE IF HasOrder(a) THEN -1
    ELSE IF HasOrder(b) THEN 1
    ELSE IF HasDate(a) /\ HasDate(b)
         THEN LET yearA == extractYear(a.date)
                  yearB == extractYear(b.date)
              IN  IF yearA # Null /\ yearB # Null THEN yearA - yearB
                  ELSE IF yearA # Null THEN -1
                  ELSE IF yearB # Null THEN 1
                  ELSE localeCompare(a.date, b.date)
    ELSE 0

compareProvenance(a, b) ==
    IF HasOrder(a) /\ HasOrder(b) THEN a.order - b.order
    ELSE IF HasOrder(a) THEN -1
    ELSE IF HasOrder(b) THEN 1
    ELSE IF HasDate(a) /\ HasDate(b)
         THEN LET yearA == extractYear(a.date)
                  yearB == extractYear(b.date)
              IN  IF yearA # Null /\ yearB # Null THEN yearA - yearB
                  ELSE IF yearA # Null THEN -1
                  ELSE IF yearB # Null THEN 1
                  ELSE localeCompare(a.date, b.date)
    ELSE IF HasDate(a) THEN -1
    ELSE IF HasDate(b) THEN 1
    ELSE 0

\* One step of a stable insertion sort: e goes right after the last element
\* that the comparator does not put after it.
InsertSorted(sorted, e) ==
    LET notAfter == {i \in 1..Len(sorted) : compareProvenance(sorted[i], e) <= 0}
        k        == IF notAfter = {} THEN 0 ELSE Max(notAfter)
    IN  SubSeq(sorted, 1, k) \o <<e>> \o SubSeq(sorted, k + 1, Len(sorted))

RECURSIVE SortPrefix(_, _)
SortPrefix(arr, n) ==
    IF n = 0 THEN <<>> ELSE InsertSorted(SortPrefix(arr, n - 1), arr[n])

\* arr.sort(compareProvenance): ECMAScript 2019 makes the sort stable
ArraySort(arr) == SortPrefix(arr, Len(arr))

\* the spread forgotten (`data.sort(...)`): the fetched array itself is sorted
SortInPlace(data) == [source |-> ArraySort(data), result |-> ArraySort(data)]

\* [...data].sort(...): the spread copies the array, the sort reorders the
\* copy in place and returns it.  source is data after the call.
SortedCopy(data) == [source |-> data, result |-> ArraySort(data)]

-----------------------------------------------------------------------------
(* The provenance lists a response can carry *)

Date1889June  == <<"1", "8", "8", "9", "-", "0", "6">>
Date1889March == <<"1", "8", "8", "9", "-", "0", "3">>
DateCirca1503 == <<"c", ".", " ", "1", "5", "0", "3">>
DateAncient   == <<"a", "n", "c", "i", "e", "n", "t">>
DateUnknown   == <<"U", "n", "k", "n", "o", "w", "n">>
DateBy1700    == <<"b", "y", " ", "1", "7", "0", "0">>
EmptyString   == <<>>

\* the dates of the events without an order
DateTexts ==
    {EmptyString, Date1889June, Date1889March, DateCirca1503, DateBy1700,
     DateAncient, DateUnknown}

\* the dates of the events with an order, which the comparator never reads:
\* two different years and a text without a year
OrderedDateTexts == {Date1889June, DateCirca1503, DateUnknown}

OrderValues == {0, 1}

\* ProvenanceRecord: id, and the optional order and date
RecordShapes ==
    {[id |-> 0]}
        \cup {[id |-> 0, order |-> o] : o \in OrderValues}
        \cup {[id |-> 0, date |-> d] : d \in DateTexts}
        \cup {[id |-> 0, order |-> o, date |-> d] :
                  o \in OrderValues, d \in OrderedDateTexts}

\* the records of one response are told apart by their id
WithIds(shape) == [i \in DOMAIN shape |-> [shape[i] EXCEPT !.id = i]]

-----------------------------------------------------------------------------
(* fetchArtwork, from the settling of the provenance request *)

\* an optional value: undefined or null is None, a value v is Some(v)
None == <<>>

Some(v) == <<v>>

\* the parts of the state a specification does not exercise stay as the
\* component is constructed
ProvenanceIdle ==
    /\ provenanceResponse = [status |-> "rejected"]
    /\ provenance = <<>>

PageIdle ==
    /\ enrichment = None
    /\ artwork = None
    /\ externalLinks = <<>>
    /\ artistInfo = None
    /\ sameAs = None

YearIdle ==
    /\ dateInput = EmptyString
    /\ yearResult = Null
    /\ formatted = EmptyString

\* the detail page as constructed, with no route parameter
FetchIdle ==
    /\ id = None
    /\ loading = TRUE
    /\ error = None
    /\ notFound = FALSE
    /\ fetches = <<>>

\* 'title' and 'date', the two sort orders of the search page
SortTitle == <<"t", "i", "t", "l", "e">>

SortDate == <<"d", "a", "t", "e">>

\* the search page not mounted
SearchIdle ==
    /\ searchParams = <<>>
    /\ searchQuery = EmptyString
    /\ filters = <<>>
    /\ sortBy = SortTitle
    /\ searchResponse = None
    /\ isSearching = FALSE
    /\ searchError = None
    /\ searches = <<>>

Init ==
    /\ \/ \E n \in 0..MaxEvents : \E shape \in [1..n -> RecordShapes] :
              provenanceResponse = [status |-> "fulfilled", data |-> WithIds(shape)]
       \/ provenanceResponse = [status |-> "rejected"]
    /\ provenance = <<>>
    /\ pc = "allSettled"
    /\ PageIdle
    /\ YearIdle
    /\ FetchIdle
    /\ SearchIdle

ProvenanceFulfilled ==
    /\ pc = "allSettled"
    /\ provenanceResponse.status = "fulfilled"
    /\ LET sortedProvenance == SortedCopy(provenanceResponse.data)
       IN  /\ provenance' = sortedProvenance.result
           /\ provenanceResponse' =
                  [provenanceResponse EXCEPT !.data = sortedProvenance.source]
    /\ pc' = "done"
    /\ UNCHANGED <<pageVars, yearVars, fetchVars, searchVars>>

ProvenanceRejected ==
    /\ pc = "allSettled"
    /\ provenanceResponse.status = "rejected"
    /\ pc' = "done"
    /\ UNCHANGED <<provenanceResponse, provenance, pageVars, yearVars, fetchVars, searchVars>>

Next == ProvenanceFulfilled \/ ProvenanceRejected

Spec == Init /\ [][Next]_vars

-----------------------------------------------------------------------------
(* What the claims speak of *)

\* the provenance request was fulfilled and its list has been sorted and stored
Sorted == pc = "done" /\ provenanceResponse.status = "fulfilled"

\* the event carries an explicit order
CarriesOrder(e) == "order" \in DOMAIN e

\* the event has a date: the property is there and is not the empty text
CarriesDate(e) == "date" \in DOMAIN e /\ Len(e.date) > 0

\* the events of the response, and the year of a dated event
FetchedEvents ==
    IF provenanceResponse.status = "fulfilled"
    THEN {provenanceResponse.data[i] : i \in DOMAIN provenanceResponse.data}
    ELSE {}

Sign(x) == IF x < 0 THEN -1 ELSE IF x > 0 THEN 1 ELSE 0

\* the event has no order and a date that gives a year / gives no year
UnorderedWithYear(e) ==
    ~CarriesOrder(e) /\ CarriesDate(e) /\ extractYear(e.date) # Null

UnorderedWithoutYear(e) ==
    ~CarriesOrder(e) /\ CarriesDate(e) /\ extractYear(e.date) = Null

\* The characters of the modelled texts in the order of their UTF-16 code
\* units, and the lexicographic comparison of two texts by code unit.
CodeUnitOrder ==
    <<" ", "-", ".", "0", "1", "2", "3", "4", "5", "6", "7", "8", "9",
      "C", "U", "_",
      "a", "b", "c", "e", "i", "k", "n", "o", "r", "t", "u", "w", "y">>

CodeUnitRank(c) == CHOOSE i \in 1..Len(CodeUnitOrder) : CodeUnitOrder[i] = c

LexCompare(a, b) ==
    CompareWeights([i \in DOMAIN a |-> CodeUnitRank(a[i])],
                   [i \in DOMAIN b |-> CodeUnitRank(b[i])])

\* the multiset of the elements of a sequence
BagOf(seq) ==
    [e \in {seq[i] : i \in DOMAIN seq} |->
        Cardinality({i \in DOMAIN seq : seq[i] = e})]

-----------------------------------------------------------------------------
\* C1: in the sorted provenance list every event that carries an explicit
\* order comes before every event that carries none, whatever their dates.
C1_OrderedBeforeUnordered ==
    Sorted =>
        \A i, j \in DOMAIN provenance :
            (CarriesOrder(provenance[i]) /\ ~CarriesOrder(provenance[j])) => i < j

\* an ordered event dated 1889 was fetched after an unordered one dated
\* c. 1503 and stands before it in the sorted list
C1_Witness ==
    /\ Sorted
    /\ \E i, j \in DOMAIN provenance :
          /\ i < j
          /\ provenance[i].id > provenance[j].id
          /\ CarriesOrder(provenance[i]) /\ CarriesDate(provenance[i])
          /\ ~CarriesOrder(provenance[j]) /\ CarriesDate(provenance[j])
          /\ provenance[i].date = Date1889June
          /\ provenance[j].date = DateCirca1503

\* C2: in the sorted provenance list any two events that carry an explicit
\* order stand in ascending order of that value, whatever their dates and
\* their places in the fetched list.
C2_OrdersAscending ==
    Sorted =>
        \A i, j \in DOMAIN provenance :
            (i < j /\ CarriesOrder(provenance[i]) /\ CarriesOrder(provenance[j]))
                => provenance[i].order <= provenance[j].order

\* two ordered events were fetched in descending order, the one with the
\* smaller order having the later date, and were exchanged by the sort
C2_Witness ==
    /\ Sorted
    /\ \E i, j \in DOMAIN provenance :
          /\ i < j
          /\ provenance[i].id > provenance[j].id
          /\ CarriesOrder(provenance[i]) /\ CarriesOrder(provenance[j])
          /\ provenance[i].order < provenance[j].order
          /\ CarriesDate(provenance[i]) /\ CarriesDate(provenance[j])
          /\ provenance[i].date = Date1889June
          /\ provenance[j].date = DateCirca1503

\* C3: the comparator is a strict weak ordering over the fetched events, for
\* every combination of order present or absent and date absent, empty,
\* year-parseable or unparseable: an event compares equal to itself, the two
\* ways of comparing a pair have opposite signs, "before" is transitive and
\* "compares equal" is transitive.
C3_StrictWeakOrdering ==
    Sorted =>
        \A a, b \in FetchedEvents :
            LET ab == Sign(compareProvenance(a, b))
            IN  /\ compareProvenance(a, a) = 0
                /\ ab = -Sign(compareProvenance(b, a))
                /\ ab < 0 =>
                       \A c \in FetchedEvents :
                           compareProvenance(b, c) < 0 => compareProvenance(a, c) < 0
                /\ ab = 0 =>
                       \A c \in FetchedEvents :
                           compareProvenance(b, c) = 0 => compareProvenance(a, c) = 0

\* the response holds a chain through three tiers (an ordered event, an
\* unordered event whose date gives no year, an event with an empty date)
\* and the comparator has been used on it
C3_Witness ==
    /\ Sorted
    /\ \E a, b, c \in FetchedEvents :
          /\ CarriesOrder(a)
          /\ ~CarriesOrder(b) /\ CarriesDate(b) /\ extractYear(b.date) = Null
          /\ ~CarriesOrder(c) /\ "date" \in DOMAIN c /\ c.date = EmptyString
          /\ compareProvenance(a, b) < 0
          /\ compareProvenance(b, c) < 0
          /\ compareProvenance(a, c) < 0

\* C4: events that the comparator ranks equal keep their fetched relative
\* order in the sorted list; a list in which no event has an order or a date
\* comes back in exactly its fetched order.
C4_StableForEqualRank ==
    Sorted =>
        /\ \A i, j \in DOMAIN provenance :
               (i < j /\ compareProvenance(provenance[i], provenance[j]) = 0)
                   => provenance[i].id < provenance[j].id
        /\ (\A e \in FetchedEvents : ~CarriesOrder(e) /\ ~CarriesDate(e))
               => provenance = provenanceResponse.data

\* a list of at least two events, none with an order or a date, was sorted
C4_Witness ==
    /\ Sorted
    /\ Len(provenance) >= 2
    /\ \A e \in FetchedEvents : DOMAIN e = {"id"}
    /\ provenance = provenanceResponse.data

\* C5 as claimed: two events without an order whose dates give the same year
\* but differ as texts stand in lexicographic order of their date texts.
C5_SameYearLexicographic ==
    Sorted =>
        \A i, j \in DOMAIN provenance :
            ( /\ i < j
              /\ UnorderedWithYear(provenance[i]) /\ UnorderedWithYear(provenance[j])
              /\ extractYear(provenance[i].date) = extractYear(provenance[j].date)
              /\ provenance[i].date # provenance[j].date )
                => LexCompare(provenance[i].date, provenance[j].date) < 0

\* C5 as amended: two events without an order whose dates give the same year
\* are ranked equal and keep their fetched relative order, whatever their
\* date texts.
C5_SameYearKeepsFetchedOrder ==
    Sorted =>
        \A i, j \in DOMAIN provenance :
            ( /\ i < j
              /\ UnorderedWithYear(provenance[i]) /\ UnorderedWithYear(provenance[j])
              /\ extractYear(provenance[i].date) = extractYear(provenance[j].date) )
                => provenance[i].id < provenance[j].id

\* "1889-06" was fetched before "1889-03" and still stands before it
C5_Witness ==
    /\ Sorted
    /\ \E i, j \in DOMAIN provenance :
          /\ i < j
          /\ UnorderedWithYear(provenance[i]) /\ UnorderedWithYear(provenance[j])
          /\ provenance[i].date = Date1889June
          /\ provenance[j].date = Date1889March
          /\ LexCompare(provenance[i].date, provenance[j].date) > 0

\* C6: among the events without an order whose dates both give a year, the
\* sorted list is in ascending order of the extracted year.
C6_YearsAscending ==
    Sorted =>
        \A i, j \in DOMAIN provenance :
            (i < j /\ UnorderedWithYear(provenance[i]) /\ UnorderedWithYear(provenance[j]))
                => extractYear(provenance[i].date) <= extractYear(provenance[j].date)

\* "c. 1503" was fetched after "1889-06" and stands before it, although its
\* text collates after
C6_Witness ==
    /\ Sorted
    /\ \E i, j \in DOMAIN provenance :
          /\ i < j
          /\ provenance[i].id > provenance[j].id
          /\ UnorderedWithYear(provenance[i]) /\ UnorderedWithYear(provenance[j])
          /\ extractYear(provenance[i].date) < extractYear(provenance[j].date)
          /\ localeCompare(provenance[i].date, provenance[j].date) > 0

\* C7: among the events without an order that carry a date, an event whose
\* date gives a year stands before every event whose date gives none (the
\* empty text included).
C7_YearBeforeNoYear ==
    Sorted =>
        \A i, j \in DOMAIN provenance :
            ( /\ UnorderedWithYear(provenance[i])
              /\ ~CarriesOrder(provenance[j])
              /\ "date" \in DOMAIN provenance[j]
              /\ extractYear(provenance[j].date) = Null )
                => i < j

\* "c. 1503" was fetched after "ancient", which collates before it, and
\* stands before it
C7_Witness ==
    /\ Sorted
    /\ \E i, j \in DOMAIN provenance :
          /\ i < j
          /\ provenance[i].id > provenance[j].id
          /\ UnorderedWithYear(provenance[i])
          /\ UnorderedWithoutYear(provenance[j])
          /\ localeCompare(provenance[i].date, provenance[j].date) > 0

C9_DatedBeforeUndated ==
    Sorted =>
        \A i, j \in DOMAIN provenance :
            ( /\ ~CarriesOrder(provenance[i]) /\ CarriesDate(provenance[i])
              /\ ~CarriesOrder(provenance[j]) /\ ~CarriesDate(provenance[j]) )
                => i < j

\* a dated event without a year was fetched after an event without the date
\* property and stands before it
C9_Witness ==
    /\ Sorted
    /\ \E i, j \in DOMAIN provenance :
          /\ i < j
          /\ provenance[i].id > provenance[j].id
          /\ UnorderedWithoutYear(provenance[i])
          /\ DOMAIN provenance[j] = {"id"}

\* C10: the sorted provenance list is a permutation of the fetched list
\* (every fetched event once, with all its fields), and the fetched array is
\* left as it was.
C10_SortIsPermutation ==
    [][ (pc = "allSettled" /\ pc' = "done" /\ provenanceResponse.status = "fulfilled")
            => /\ Len(provenance') = Len(provenanceResponse.data)
               /\ BagOf(provenance') = BagOf(provenanceResponse.data)
               /\ provenanceResponse' = provenanceResponse ]_vars

\* a list of at least three events, among them one with neither order nor
\* date, one with an order only and one with a date only, was reordered
C10_Witness ==
    /\ Sorted
    /\ Len(provenance) >= 3
    /\ provenance # provenanceResponse.data
    /\ \E a, b, c \in FetchedEvents :
          /\ DOMAIN a = {"id"}
          /\ DOMAIN b = {"id", "order"}
          /\ DOMAIN c = {"id", "date"}

-----------------------------------------------------------------------------
(* The "About the Artist" block of the detail page *)

\* obj?.field: None when obj is undefined or has no such property
Prop(obj, field) ==
    IF obj = None THEN None
    ELSE IF field \in DOMAIN obj[1] THEN Some(obj[1][field])
    ELSE None

\* a string operand of || or && is truthy: defined and not the empty string
TruthyString(value) == value # None /\ value[1] # EmptyString

\* a || b
OrElse(a, b) == IF TruthyString(a) THEN a ELSE b

\* enrichment?.artist_dbpedia || enrichment?.artist_wikidata || enrichment?.artist_local
HasArtistSection(e) ==
    \/ Prop(e, "artist_dbpedia") # None
    \/ Prop(e, "artist_wikidata") # None
    \/ Prop(e, "artist_local") # None

artistDescription(e) ==
    OrElse(OrElse(Prop(Prop(e, "artist_dbpedia"), "abstract"),
                  Prop(Prop(e, "artist_wikidata"), "description")),
           Prop(Prop(e, "artist_local"), "description"))

\* Wikidata asked before DBpedia
birthDateWikidataFirst(e) ==
    OrElse(OrElse(Prop(Prop(e, "artist_wikidata"), "birthDate"),
                  Prop(Prop(e, "artist_dbpedia"), "birthDate")),
           Prop(Prop(e, "artist_local"), "birthDate"))

birthDate(e) ==
    OrElse(OrElse(Prop(Prop(e, "artist_dbpedia"), "birthDate"),
                  Prop(Prop(e, "artist_wikidata"), "birthDate")),
           Prop(Prop(e, "artist_local"), "birthDate"))

deathDate(e) ==
    OrElse(OrElse(Prop(Prop(e, "artist_dbpedia"), "deathDate"),
                  Prop(Prop(e, "artist_wikidata"), "deathDate")),
           Prop(Prop(e, "artist_local"), "deathDate"))

\* the Wikidata nationality wired in as a fallback
nationalityWithWikidata(e) ==
    OrElse(Prop(Prop(e, "artist_local"), "nationality"),
           Prop(Prop(e, "artist_wikidata"), "nationality"))

nationality(e) == Prop(Prop(e, "artist_local"), "nationality")

ArtistFields == {"description", "birthDate", "deathDate", "nationality"}

\* What the block shows: nothing when no artist record came, else each of the
\* four values that is truthy ({value && <span>...}).
RenderArtistInfo(e) ==
    IF ~HasArtistSection(e) THEN None
    ELSE LET value == [f \in ArtistFields |->
                          CASE f = "description" -> artistDescription(e)
                            [] f = "birthDate"   -> birthDate(e)
                            [] f = "deathDate"   -> deathDate(e)
                            [] f = "nationality" -> nationality(e)]
         IN  Some([f \in {g \in ArtistFields : TruthyString(value[g])} |-> value[f][1]])

\* The texts the three artist records carry
BlankText == <<" ", " ", " ">>
TextDBpedia == <<"D">>
TextWikidata == <<"W">>
TextLocal == <<"L">>

\* a record with any of the fields, each with any of the values
OptionalRecords(fields, values) ==
    UNION {[present -> values] : present \in SUBSET fields}

DBpediaArtistInfos ==
    OptionalRecords({"abstract", "birthDate", "deathDate"},
                    {EmptyString, BlankText, TextDBpedia})

WikidataArtistInfos ==
    OptionalRecords({"description", "birthDate", "deathDate", "nationality"},
                    {EmptyString, TextWikidata})

LocalArtistInfos ==
    OptionalRecords({"description", "birthDate", "deathDate", "nationality"},
                    {TextLocal})

\* the object with the properties that are given
ObjectOf(props) ==
    [name \in {n \in DOMAIN props : props[n] # None} |-> props[name][1]]

ArtistInit ==
    /\ \/ enrichment = None
       \/ \E d \in {None} \cup {Some(r) : r \in DBpediaArtistInfos} :
          \E w \in {None} \cup {Some(r) : r \in WikidataArtistInfos} :
          \E l \in {None} \cup {Some(r) : r \in LocalArtistInfos} :
              enrichment = Some(ObjectOf([artist_dbpedia |-> d,
                                          artist_wikidata |-> w,
                                          artist_local |-> l]))
    /\ artwork = None
    /\ externalLinks = <<>>
    /\ artistInfo = None
    /\ sameAs = None
    /\ pc = "render"
    /\ ProvenanceIdle
    /\ YearIdle
    /\ FetchIdle
    /\ SearchIdle

RenderArtist ==
    /\ pc = "render"
    /\ artistInfo' = RenderArtistInfo(enrichment)
    /\ pc' = "rendered"
    /\ UNCHANGED <<enrichment, artwork, externalLinks, sameAs, provenanceVars, yearVars, fetchVars, searchVars>>

ArtistNext == RenderArtist

ArtistSpec == ArtistInit /\ [][ArtistNext]_vars

-----------------------------------------------------------------------------
(* What the claims about the artist block speak of *)

ArtistRendered == pc = "rendered" /\ artistInfo # None

\* the value the block shows for a field, None when it shows none
Shown(field) == Prop(artistInfo, field)

\* the value a source record carries for a field
Candidate(source, field) == Prop(Prop(enrichment, source), field)

\* a text of white space only (the empty text included)
IsBlank(text) == \A i \in DOMAIN text : text[i] = " "

\* the first candidate that is there and is not blank / not empty
FirstNonBlank(candidates) ==
    LET ok == {i \in DOMAIN candidates :
                  candidates[i] # None /\ ~IsBlank(candidates[i][1])}
    IN  IF ok = {} THEN None ELSE candidates[Min(ok)]

FirstNonEmpty(candidates) ==
    LET ok == {i \in DOMAIN candidates :
                  candidates[i] # None /\ candidates[i][1] # EmptyString}
    IN  IF ok = {} THEN None ELSE candidates[Min(ok)]

\* the candidates of the three merged fields, in their order of precedence
DescriptionCandidates ==
    <<Candidate("artist_dbpedia", "abstract"),
      Candidate("artist_wikidata", "description"),
      Candidate("artist_local", "description")>>

BirthDateCandidates ==
    <<Candidate("artist_dbpedia", "birthDate"),
      Candidate("artist_wikidata", "birthDate"),
      Candidate("artist_local", "birthDate")>>

DeathDateCandidates ==
    <<Candidate("artist_dbpedia", "deathDate"),
      Candidate("artist_wikidata", "deathDate"),
      Candidate("artist_local", "deathDate")>>

\* C11: every merged display field shows the first candidate, in the order of
\* precedence, that is present, an empty and a white-space-only text counting
\* as absent; it shows nothing when every candidate is absent.
C11_FirstPresentNonBlank ==
    ArtistRendered =>
        /\ Shown("description") = FirstNonBlank(DescriptionCandidates)
        /\ Shown("birthDate") = FirstNonBlank(BirthDateCandidates)
        /\ Shown("deathDate") = FirstNonBlank(DeathDateCandidates)

\* C12: the biography, the birth date and the death date each show, on their
\* own, the first value that is present (not empty) in the order DBpedia,
\* Wikidata, local.
C12_PerFieldPrecedence ==
    ArtistRendered =>
        /\ Shown("description") = FirstNonEmpty(DescriptionCandidates)
        /\ Shown("birthDate") = FirstNonEmpty(BirthDateCandidates)
        /\ Shown("deathDate") = FirstNonEmpty(DeathDateCandidates)

\* the birth date comes from DBpedia although Wikidata has one too, the death
\* date from Wikidata because DBpedia's is empty, the biography from the
\* local record
C12_Witness ==
    /\ ArtistRendered
    /\ Candidate("artist_dbpedia", "birthDate") = Some(TextDBpedia)
    /\ Candidate("artist_wikidata", "birthDate") = Some(TextWikidata)
    /\ Shown("birthDate") = Some(TextDBpedia)
    /\ Candidate("artist_dbpedia", "deathDate") = Some(EmptyString)
    /\ Candidate("artist_local", "deathDate") = Some(TextLocal)
    /\ Shown("deathDate") = Some(TextWikidata)
    /\ Candidate("artist_dbpedia", "abstract") = None
    /\ Candidate("artist_wikidata", "description") = Some(EmptyString)
    /\ Shown("description") = Some(TextLocal)

\* C18: the nationality shown is the one of the local artist record, and none
\* is shown when the local record has none, whatever nationality the Wikidata
\* record carries.
C18_NationalityLocalOnly ==
    ArtistRendered => Shown("nationality") = Candidate("artist_local", "nationality")

\* the Wikidata record carries a nationality, the local record (which is
\* there) carries none, and none is shown; or both carry one and the local
\* one is shown
C18_Witness ==
    /\ ArtistRendered
    /\ Candidate("artist_wikidata", "nationality") = Some(TextWikidata)
    /\ Prop(enrichment, "artist_local") # None
    /\ Candidate("artist_local", "nationality") = None
    /\ Shown("nationality") = None

-----------------------------------------------------------------------------
(* getExternalLinks: the links of the page to DBpedia, Wikidata and Getty AAT *)

\* 'https://www.wikidata.org/wiki/'
WikidataPagePrefix ==
    <<"h", "t", "t", "p", "s", ":", "/", "/", "w", "w", "w", ".",
      "w", "i", "k", "i", "d", "a", "t", "a", ".", "o", "r", "g", "/",
      "w", "i", "k", "i", "/">>

\* 'http'
HttpText == <<"h", "t", "t", "p">>

\* String.prototype.startsWith
StartsWith(text, prefix) ==
    Len(text) >= Len(prefix) /\ SubSeq(text, 1, Len(prefix)) = prefix

\* uri.split('/').pop(): what follows the last '/', the whole text without one
LastSegment(uri) ==
    LET slashes == {i \in DOMAIN uri : uri[i] = "/"}
    IN  IF slashes = {} THEN uri ELSE SubSeq(uri, Max(slashes) + 1, Len(uri))

FirstSegment(uri) ==
    LET slashes == {i \in DOMAIN uri : uri[i] = "/"}
    IN  IF slashes = {} THEN uri ELSE SubSeq(uri, 1, Min(slashes) - 1)

\* /^Q\d+$/.test(text)
IsWikidataId(text) ==
    /\ Len(text) >= 2
    /\ text[1] = "Q"
    /\ \A i \in 2..Len(text) : IsDigit(text[i])

Link(name, url) == [name |-> name, url |-> url]

dbpediaLinkFromBoth(e, a) ==
    (IF TruthyString(Prop(Prop(e, "dbpedia"), "uri"))
        THEN <<Link("DBpedia", Prop(Prop(e, "dbpedia"), "uri")[1])>> ELSE <<>>)
    \o (IF TruthyString(Prop(Prop(a, "externalLinks"), "dbpedia"))
        THEN <<Link("DBpedia", Prop(Prop(a, "externalLinks"), "dbpedia")[1])>> ELSE <<>>)

dbpediaLink(e, a) ==
    IF TruthyString(Prop(Prop(e, "dbpedia"), "uri"))
    THEN <<Link("DBpedia", Prop(Prop(e, "dbpedia"), "uri")[1])>>
    ELSE IF TruthyString(Prop(Prop(a, "externalLinks"), "dbpedia"))
    THEN <<Link("DBpedia", Prop(Prop(a, "externalLinks"), "dbpedia")[1])>>
    ELSE <<>>

wikidataLinkFirstSegment(e, a) ==
    IF TruthyString(Prop(Prop(e, "wikidata"), "uri"))
    THEN LET uri == Prop(Prop(e, "wikidata"), "uri")[1]
             wikidataId == FirstSegment(uri)
         IN  IF wikidataId # EmptyString /\ IsWikidataId(wikidataId)
             THEN <<Link("Wikidata", WikidataPagePrefix \o wikidataId)>>
             ELSE IF StartsWith(uri, HttpText)
             THEN <<Link("Wikidata", uri)>>
             ELSE <<>>
    ELSE IF TruthyString(Prop(Prop(a, "externalLinks"), "wikidata"))
    THEN <<Link("Wikidata", Prop(Prop(a, "externalLinks"), "wikidata")[1])>>
    ELSE <<>>

wikidataLink(e, a) ==
    IF TruthyString(Prop(Prop(e, "wikidata"), "uri"))
    THEN LET uri == Prop(Prop(e, "wikidata"), "uri")[1]
             wikidataId == LastSegment(uri)
         IN  IF wikidataId # EmptyString /\ IsWikidataId(wikidataId)
             THEN <<Link("Wikidata", WikidataPagePrefix \o wikidataId)>>
             ELSE IF StartsWith(uri, HttpText)
             THEN <<Link("Wikidata", uri)>>
             ELSE <<>>
    ELSE IF TruthyString(Prop(Prop(a, "externalLinks"), "wikidata"))
    THEN <<Link("Wikidata", Prop(Prop(a, "externalLinks"), "wikidata")[1])>>
    ELSE <<>>

gettyLinkArtworkFirst(e, a) ==
    IF TruthyString(Prop(Prop(a, "externalLinks"), "getty"))
    THEN <<Link("Getty AAT", Prop(Prop(a, "externalLinks"), "getty")[1])>>
    ELSE IF Prop(e, "getty") # None /\ Len(Prop(e, "getty")[1]) > 0
    THEN <<Link("Getty AAT", Prop(e, "getty")[1][1].uri)>>
    ELSE <<>>

gettyLink(e, a) ==
    IF Prop(e, "getty") # None /\ Len(Prop(e, "getty")[1]) > 0
    THEN <<Link("Getty AAT", Prop(e, "getty")[1][1].uri)>>
    ELSE IF TruthyString(Prop(Prop(a, "externalLinks"), "getty"))
    THEN <<Link("Getty AAT", Prop(Prop(a, "externalLinks"), "getty")[1])>>
    ELSE <<>>

\* generateJsonLd: the sameAs links, which the exporter leaves out when empty
jsonLdSameAs(a) ==
    LET sameAsLinks ==
              (IF TruthyString(Prop(Prop(a, "externalLinks"), "dbpedia"))
                  THEN <<Prop(Prop(a, "externalLinks"), "dbpedia")[1]>> ELSE <<>>)
              \o (IF TruthyString(Prop(Prop(a, "externalLinks"), "wikidata"))
                  THEN <<Prop(Prop(a, "externalLinks"), "wikidata")[1]>> ELSE <<>>)
              \o (IF TruthyString(Prop(Prop(a, "externalLinks"), "getty"))
                  THEN <<Prop(Prop(a, "externalLinks"), "getty")[1]>> ELSE <<>>)
    IN  IF Len(sameAsLinks) > 0 THEN Some(sameAsLinks) ELSE None

getExternalLinks(e, a) == dbpediaLink(e, a) \o wikidataLink(e, a) \o gettyLink(e, a)

(* The values the two sources may hold *)

\* what may stand before the last segment of a Wikidata URI
\* ('', 'http://www.wikidata.org/entity/', 'https://wd/', 'wd:', 'entity/', 'httpx')
UriPrefixes ==
    { EmptyString,
      <<"h", "t", "t", "p", ":", "/", "/", "w", "w", "w", ".",
        "w", "i", "k", "i", "d", "a", "t", "a", ".", "o", "r", "g", "/",
        "e", "n", "t", "i", "t", "y", "/">>,
      <<"h", "t", "t", "p", "s", ":", "/", "/", "w", "d", "/">>,
      <<"w", "d", ":">>,
      <<"e", "n", "t", "i", "t", "y", "/">>,
      <<"h", "t", "t", "p", "x">> }

\* what may end it ('', 'Q42', 'Q7', 'Q', 'q42', 'P31', 'Q4a', 'Q42/', 'xQ42')
UriEndings ==
    { EmptyString,
      <<"Q", "4", "2">>,
      <<"Q", "7">>,
      <<"Q">>,
      <<"q", "4", "2">>,
      <<"P", "3", "1">>,
      <<"Q", "4", "a">>,
      <<"Q", "4", "2", "/">>,
      <<"x", "Q", "4", "2">> }

WikidataUris == {prefix \o ending : prefix \in UriPrefixes, ending \in UriEndings}

\* 'http://dbpedia.org/resource/M'
DBpediaUri ==
    <<"h", "t", "t", "p", ":", "/", "/", "d", "b", "p", "e", "d", "i", "a", ".",
      "o", "r", "g", "/", "r", "e", "s", "o", "u", "r", "c", "e", "/", "M">>

\* 'http://vocab.getty.edu/aat/300177435' and '.../aat/300033618'
GettyUri ==
    <<"h", "t", "t", "p", ":", "/", "/", "v", "o", "c", "a", "b", ".",
      "g", "e", "t", "t", "y", ".", "e", "d", "u", "/", "a", "a", "t", "/",
      "3", "0", "0", "1", "7", "7", "4", "3", "5">>

GettyUriSecond ==
    <<"h", "t", "t", "p", ":", "/", "/", "v", "o", "c", "a", "b", ".",
      "g", "e", "t", "t", "y", ".", "e", "d", "u", "/", "a", "a", "t", "/",
      "3", "0", "0", "0", "3", "3", "6", "1", "8">>

\* the links an artwork record carries: 'a:dbpedia', 'a:wikidata', 'a:getty'
ArtworkDBpediaLink == <<"a", ":", "d", "b", "p", "e", "d", "i", "a">>
ArtworkWikidataLink == <<"a", ":", "w", "i", "k", "i", "d", "a", "t", "a">>
ArtworkGettyLink == <<"a", ":", "g", "e", "t", "t", "y">>

DBpediaArtworkInfos == {[uri |-> EmptyString], [uri |-> DBpediaUri]}

WikidataArtworkInfos == {[uri |-> uri] : uri \in WikidataUris}

GettyTermLists ==
    { <<>>,
      <<[uri |-> EmptyString]>>,
      <<[uri |-> GettyUri]>>,
      <<[uri |-> GettyUri], [uri |-> GettyUriSecond]>> }

ArtworkExternalLinks ==
    {ObjectOf([dbpedia |-> d, wikidata |-> w, getty |-> g]) :
        d \in {None, Some(EmptyString), Some(ArtworkDBpediaLink)},
        w \in {None, Some(EmptyString), Some(ArtworkWikidataLink)},
        g \in {None, Some(EmptyString), Some(ArtworkGettyLink)}}

LinksInit ==
    /\ \/ enrichment = None
       \/ \E d \in {None} \cup {Some(r) : r \in DBpediaArtworkInfos} :
          \E w \in {None} \cup {Some(r) : r \in WikidataArtworkInfos} :
          \E g \in {None} \cup {Some(r) : r \in GettyTermLists} :
             enrichment = Some(ObjectOf([dbpedia |-> d, wikidata |-> w, getty |-> g]))
    /\ \E x \in {None} \cup {Some(r) : r \in ArtworkExternalLinks} :
          artwork = Some(ObjectOf([externalLinks |-> x]))
    /\ externalLinks = <<>>
    /\ artistInfo = None
    /\ sameAs = None
    /\ pc = "links"
    /\ ProvenanceIdle
    /\ YearIdle
    /\ FetchIdle
    /\ SearchIdle

\* const externalLinks = getExternalLinks()
RenderLinks ==
    /\ pc = "links"
    /\ externalLinks' = getExternalLinks(enrichment, artwork)
    /\ sameAs' = jsonLdSameAs(artwork)
    /\ pc' = "linked"
    /\ UNCHANGED <<enrichment, artwork, artistInfo, provenanceVars, yearVars, fetchVars, searchVars>>

LinksNext == RenderLinks

LinksSpec == LinksInit /\ [][LinksNext]_vars

-----------------------------------------------------------------------------
(* What the claims about the external links speak of *)

LinksRendered == pc = "linked"

Providers == <<"DBpedia", "Wikidata", "Getty AAT">>

ProviderRank(name) == CHOOSE i \in DOMAIN Providers : Providers[i] = name

\* the urls the list gives for a provider
UrlsOf(name) ==
    {externalLinks[i].url : i \in {j \in DOMAIN externalLinks : externalLinks[j].name = name}}

\* the raw values of the two sources, None when the source has none
EnrichmentDBpediaUri == Prop(Prop(enrichment, "dbpedia"), "uri")

EnrichmentWikidataUri == Prop(Prop(enrichment, "wikidata"), "uri")

EnrichmentGettyUri ==
    IF Prop(enrichment, "getty") = None \/ Prop(enrichment, "getty")[1] = <<>>
    THEN None
    ELSE Some(Prop(enrichment, "getty")[1][1].uri)

ArtworkLinkOf(name) ==
    Prop(Prop(artwork, "externalLinks"),
         CASE name = "DBpedia" -> "dbpedia"
           [] name = "Wikidata" -> "wikidata"
           [] name = "Getty AAT" -> "getty")

NonEmpty(value) == value # None /\ value[1] # EmptyString

\* the trailing path segment of a URI: what follows its last '/'
TrailingSegment(uri) ==
    LET start == CHOOSE k \in 0..Len(uri) :
                    /\ k = 0 \/ uri[k] = "/"
                    /\ \A i \in (k + 1)..Len(uri) : uri[i] # "/"
    IN  SubSeq(uri, start + 1, Len(uri))

\* 'Q' followed by one or more digits
IsQNumber(text) ==
    \E n \in 1..Len(text) :
        /\ Len(text) = n + 1
        /\ text[1] = "Q"
        /\ \A i \in 2..(n + 1) : text[i] \in Digits

\* an absolute URL: 'http://' or 'https://' and something after it
IsAbsoluteUrl(text) ==
    \E scheme \in {<<"h", "t", "t", "p", ":", "/", "/">>,
                   <<"h", "t", "t", "p", "s", ":", "/", "/">>} :
        /\ Len(text) > Len(scheme)
        /\ SubSeq(text, 1, Len(scheme)) = scheme

\* the link value an enrichment gives for a provider, None when it gives no
\* usable one (missing, empty or malformed)
EnrichmentLinkOf(name) ==
    CASE name = "DBpedia" ->
            IF NonEmpty(EnrichmentDBpediaUri) THEN EnrichmentDBpediaUri ELSE None
      [] name = "Wikidata" ->
            IF ~NonEmpty(EnrichmentWikidataUri) THEN None
            ELSE IF IsQNumber(TrailingSegment(EnrichmentWikidataUri[1]))
            THEN Some(WikidataPagePrefix \o TrailingSegment(EnrichmentWikidataUri[1]))
            ELSE IF IsAbsoluteUrl(EnrichmentWikidataUri[1])
            THEN EnrichmentWikidataUri
            ELSE None
      [] name = "Getty AAT" ->
            IF NonEmpty(EnrichmentGettyUri) THEN EnrichmentGettyUri ELSE None

ProviderNames == {Providers[i] : i \in DOMAIN Providers}

\* C13: for each provider, when the enrichment and the artwork's own
\* externalLinks both hold a usable value, the link of that provider is the
\* one derived from the enrichment and not the artwork's.
C13_EnrichmentWins ==
    LinksRendered =>
        \A name \in ProviderNames :
            (EnrichmentLinkOf(name) # None /\ NonEmpty(ArtworkLinkOf(name)))
                => UrlsOf(name) = {EnrichmentLinkOf(name)[1]}

\* every provider has a usable value in both sources, the Wikidata one being
\* an entity URI, and the three links come from the enrichment
C13_Witness ==
    /\ LinksRendered
    /\ \A name \in ProviderNames :
          /\ EnrichmentLinkOf(name) # None
          /\ NonEmpty(ArtworkLinkOf(name))
          /\ ArtworkLinkOf(name)[1] \notin UrlsOf(name)
    /\ IsQNumber(TrailingSegment(EnrichmentWikidataUri[1]))
    /\ Len(externalLinks) = 3

\* C14: a provider is left out only when neither source has a usable value
\* for it: whenever the enrichment yields no usable value (missing, or present
\* but malformed) and the artwork's externalLinks has one, the list has that
\* provider with the artwork's value.
C14_FallbackToArtwork ==
    LinksRendered =>
        \A name \in ProviderNames :
            /\ (EnrichmentLinkOf(name) = None /\ NonEmpty(ArtworkLinkOf(name)))
                  => UrlsOf(name) = {ArtworkLinkOf(name)[1]}
            /\ UrlsOf(name) = {}
                  => (EnrichmentLinkOf(name) = None /\ ~NonEmpty(ArtworkLinkOf(name)))

\* C15: the list has at most one link per provider name, and its names are a
\* subsequence of DBpedia, Wikidata, Getty AAT.
C15_OnePerProviderInOrder ==
    LinksRendered =>
        /\ \A i \in DOMAIN externalLinks : externalLinks[i].name \in ProviderNames
        /\ \A i, j \in DOMAIN externalLinks :
              i < j => ProviderRank(externalLinks[i].name) < ProviderRank(externalLinks[j].name)

\* both sources carry a value for every provider and the list has the three
\* links, one each, in the fixed order
C15_Witness ==
    /\ LinksRendered
    /\ \A name \in ProviderNames :
          NonEmpty(ArtworkLinkOf(name)) /\ EnrichmentLinkOf(name) # None
    /\ <<externalLinks[1].name, externalLinks[2].name, externalLinks[3].name>> = Providers

\* C16: an enrichment Wikidata URI whose trailing path segment is Q followed
\* by one or more digits gives the link https://www.wikidata.org/wiki/<segment>,
\* whatever stands before the segment.
C16_WikidataPageUrl ==
    LinksRendered =>
        \A uri \in WikidataUris :
            (EnrichmentWikidataUri = Some(uri) /\ IsQNumber(TrailingSegment(uri)))
                => UrlsOf("Wikidata") = {WikidataPagePrefix \o TrailingSegment(uri)}

\* the URI is 'entity/Q42', which has no scheme, the artwork has a Wikidata
\* link of its own, and the link is https://www.wikidata.org/wiki/Q42
C16_Witness ==
    /\ LinksRendered
    /\ EnrichmentWikidataUri = Some(<<"e", "n", "t", "i", "t", "y", "/", "Q", "4", "2">>)
    /\ NonEmpty(ArtworkLinkOf("Wikidata"))
    /\ UrlsOf("Wikidata") = {WikidataPagePrefix \o <<"Q", "4", "2">>}

\* C17: an enrichment Wikidata URI whose trailing path segment is not
\* Q<digits> gives the raw URI as the link only if the raw URI is an absolute
\* URL; otherwise no link with that value is in the list.
C17_RawOnlyIfAbsoluteUrl ==
    LinksRendered =>
        \A uri \in WikidataUris :
            (EnrichmentWikidataUri = Some(uri) /\ uri # EmptyString
                    /\ ~IsQNumber(TrailingSegment(uri)))
                => IF IsAbsoluteUrl(uri)
                   THEN UrlsOf("Wikidata") = {uri}
                   ELSE uri \notin UrlsOf("Wikidata")

-----------------------------------------------------------------------------
(* extractYear on date texts of every shape *)

MaxTokens == 5

\* the pieces the date texts are made of
\* ('1503', '1889', '15', 'c', 'C', '.', ' ', 'circa', 'circa ', 'b', '-')
DateTokens ==
    { <<"1", "5", "0", "3">>,
      <<"1", "8", "8", "9">>,
      <<"1", "5">>,
      <<"c">>,
      <<"C">>,
      <<".">>,
      <<" ">>,
      <<"c", "i", "r", "c", "a">>,
      <<"c", "i", "r", "c", "a", " ">>,
      <<"b">>,
      <<"-">> }

RECURSIVE Concat(_)
Concat(pieces) ==
    IF pieces = <<>> THEN <<>> ELSE Head(pieces) \o Concat(Tail(pieces))

YearInit ==
    /\ \E n \in 0..MaxTokens :
          \E pieces \in [1..n -> DateTokens] : dateInput = Concat(pieces)
    /\ yearResult = Null
    /\ formatted = EmptyString
    /\ pc = "extract"
    /\ ProvenanceIdle
    /\ PageIdle
    /\ FetchIdle
    /\ SearchIdle

\* extractYear(dateStr)
ExtractYear ==
    /\ pc = "extract"
    /\ yearResult' = extractYear(dateInput)
    /\ pc' = "extracted"
    /\ UNCHANGED <<dateInput, formatted, provenanceVars, pageVars, fetchVars, searchVars>>

YearNext == ExtractYear

YearSpec == YearInit /\ [][YearNext]_vars

(* What the claims about extractYear speak of *)

YearExtracted == pc = "extracted"

StartsWithFourDigits(text) ==
    Len(text) >= 4 /\ \A i \in 1..4 : text[i] \in Digits

\* the text has the word at position p, whatever its case
HasWordAt(text, word, p) ==
    /\ p + Len(word) - 1 <= Len(text)
    /\ \A i \in 1..Len(word) : ToLowerCase(text[p + i - 1]) = word[i]

\* the years that follow a 'c.' or a 'circa' of the text, white space between
\* the word and the year or none
CircaYears(text) ==
    {ParseInt4(text, d) :
        d \in {q \in 1..Len(text) :
                 /\ q + 3 <= Len(text)
                 /\ \A i \in q..(q + 3) : text[i] \in Digits
                 /\ \E word \in {<<"c", ".">>, <<"c", "i", "r", "c", "a">>} :
                    \E p \in 1..q :
                       /\ HasWordAt(text, word, p)
                       /\ p + Len(word) <= q
                       /\ \A i \in (p + Len(word))..(q - 1) : text[i] = " "}}

\* C19: for a text that does not start with four digits and has a 'c.' or a
\* 'circa' followed by a four-digit year, extractYear returns that year, also
\* when a standalone run of four digits stands earlier in the text.
C19_CircaYear ==
    (YearExtracted /\ ~StartsWithFourDigits(dateInput) /\ CircaYears(dateInput) # {})
        => yearResult \in CircaYears(dateInput)

\* C20: for a text whose first four characters are digits, extractYear
\* returns the number those four digits write, whatever follows them.
C20_LeadingFourDigits ==
    (YearExtracted /\ StartsWithFourDigits(dateInput))
        => /\ yearResult \in 0..9999
           /\ yearResult \div 1000 = DigitValue(dateInput[1])
           /\ (yearResult \div 100) % 10 = DigitValue(dateInput[2])
           /\ (yearResult \div 10) % 10 = DigitValue(dateInput[3])
           /\ yearResult % 10 = DigitValue(dateInput[4])

\* '1503c. 1889': a circa year follows the leading digits and 1503 is returned
C20_Witness ==
    /\ YearExtracted
    /\ dateInput = <<"1", "5", "0", "3", "c", ".", " ", "1", "8", "8", "9">>
    /\ yearResult = 1503

\* the text has a run of four consecutive digits
HasFourDigitRun(text) ==
    \E p \in 1..Len(text) :
        p + 3 <= Len(text) /\ \A i \in p..(p + 3) : text[i] \in Digits

\* C21: extractYear returns, for every text, null or an integer between 0 and
\* 9999, and null for every text without a run of four consecutive digits.
C21_NullOrYear ==
    YearExtracted =>
        /\ yearResult = Null \/ yearResult \in 0..9999
        /\ ~HasFourDigitRun(dateInput) => yearResult = Null

\* 'c.15-15': digits after a circa mark, but no run of four, and the result
\* is null
C21_Witness ==
    /\ YearExtracted
    /\ dateInput = <<"c", ".", "1", "5", "-", "1", "5">>
    /\ yearResult = Null

-----------------------------------------------------------------------------
(* formatDate *)

\* the month names of toLocaleDateString('en-US', {month: 'long'})
MonthNames ==
    << <<"J", "a", "n", "u", "a", "r", "y">>,
       <<"F", "e", "b", "r", "u", "a", "r", "y">>,
       <<"M", "a", "r", "c", "h">>,
       <<"A", "p", "r", "i", "l">>,
       <<"M", "a", "y">>,
       <<"J", "u", "n", "e">>,
       <<"J", "u", "l", "y">>,
       <<"A", "u", "g", "u", "s", "t">>,
       <<"S", "e", "p", "t", "e", "m", "b", "e", "r">>,
       <<"O", "c", "t", "o", "b", "e", "r">>,
       <<"N", "o", "v", "e", "m", "b", "e", "r">>,
       <<"D", "e", "c", "e", "m", "b", "e", "r">> >>

DigitChar(d) == CHOOSE c \in Digits : DigitValue(c) = d

\* a number as toLocaleDateString writes a year or a day: no padding
RECURSIVE NumberText(_)
NumberText(n) ==
    IF n < 10 THEN <<DigitChar(n)>>
    ELSE NumberText(n \div 10) \o <<DigitChar(n % 10)>>

\* parseInt of a run of two digits starting at p
ParseInt2(s, p) == DigitValue(s[p]) * 10 + DigitValue(s[p + 1])

\* dateStr.split('T')[0]
BeforeFirstT(dateStr) ==
    LET ts == {i \in DOMAIN dateStr : dateStr[i] = "T"}
    IN  IF ts = {} THEN dateStr ELSE SubSeq(dateStr, 1, Min(ts) - 1)

DigitsAt(s, positions) == \A i \in positions : IsDigit(s[i])

\* /^(\d{4})-(\d{2})-(\d{2})$/
IsIsoDate(s) ==
    Len(s) = 10 /\ DigitsAt(s, {1, 2, 3, 4, 6, 7, 9, 10}) /\ s[5] = "-" /\ s[8] = "-"

\* /^(\d{4})-(\d{2})$/
IsYearMonth(s) == Len(s) = 7 /\ DigitsAt(s, {1, 2, 3, 4, 6, 7}) /\ s[5] = "-"

\* /^\d{4}$/
IsYearOnly(s) == Len(s) = 4 /\ DigitsAt(s, {1, 2, 3, 4})

IsLeapYear(y) == y % 4 = 0 /\ (y % 100 # 0 \/ y % 400 = 0)

\* the days of month m (0 is January) of year y
DaysInMonth(y, m) ==
    CASE m = 1 -> IF IsLeapYear(y) THEN 29 ELSE 28
      [] m \in {3, 5, 8, 10} -> 30
      [] OTHER -> 31

\* new Date(year, monthIndex, day) reads a year of 0..99 as 1900 + year
FullYear(year) == IF year \in 0..99 THEN 1900 + year ELSE year

\* the calendar date of new Date(y, m, d): a month index outside 0..11 and a
\* day outside the month carry over into the neighbouring months and years
RECURSIVE MakeDate(_, _, _)
MakeDate(y, m, d) ==
    IF m < 0 THEN MakeDate(y - 1, m + 12, d)
    ELSE IF m > 11 THEN MakeDate(y + 1, m - 12, d)
    ELSE IF d < 1
    THEN LET py == IF m = 0 THEN y - 1 ELSE y
             pm == IF m = 0 THEN 11 ELSE m - 1
         IN  MakeDate(py, pm, d + DaysInMonth(py, pm))
    ELSE IF d > DaysInMonth(y, m)
    THEN MakeDate(IF m = 11 THEN y + 1 ELSE y, IF m = 11 THEN 0 ELSE m + 1,
                  d - DaysInMonth(y, m))
    ELSE [year |-> y, month |-> m, day |-> d]

\* toLocaleDateString('en-US', {year: 'numeric', month: 'long', day: 'numeric'})
LongDate(date) ==
    MonthNames[date.month + 1] \o <<" ">> \o NumberText(date.day)
        \o <<",", " ">> \o NumberText(date.year)

\* toLocaleDateString('en-US', {year: 'numeric', month: 'long'})
LongMonth(date) == MonthNames[date.month + 1] \o <<" ">> \o NumberText(date.year)

formatDateOfDatePart(dateStr) ==
    IF dateStr = EmptyString THEN EmptyString
    ELSE LET datePart == BeforeFirstT(dateStr)
         IN  IF IsIsoDate(datePart)
             THEN LongDate(MakeDate(FullYear(ParseInt4(datePart, 1)),
                                    ParseInt2(datePart, 6) - 1,
                                    ParseInt2(datePart, 9)))
             ELSE IF IsYearMonth(datePart)
             THEN LongMonth(MakeDate(FullYear(ParseInt4(datePart, 1)),
                                     ParseInt2(datePart, 6) - 1, 1))
             ELSE datePart

formatDate(dateStr) ==
    IF dateStr = EmptyString THEN EmptyString
    ELSE LET datePart == BeforeFirstT(dateStr)
         IN  IF IsIsoDate(datePart)
             THEN LongDate(MakeDate(FullYear(ParseInt4(datePart, 1)),
                                    ParseInt2(datePart, 6) - 1,
                                    ParseInt2(datePart, 9)))
             ELSE IF IsYearMonth(datePart)
             THEN LongMonth(MakeDate(FullYear(ParseInt4(datePart, 1)),
                                     ParseInt2(datePart, 6) - 1, 1))
             ELSE IF IsYearOnly(datePart) THEN datePart
             ELSE dateStr

MaxParts == 5

\* the pieces the texts given to formatDate are made of
\* ('1838', '0050', '02', '31', '00', '-', 'T', 'x')
DateParts ==
    { <<"1", "8", "3", "8">>,
      <<"0", "0", "5", "0">>,
      <<"0", "2">>,
      <<"3", "1">>,
      <<"0", "0">>,
      <<"-">>,
      <<"T">>,
      <<"x">> }

FormatInit ==
    /\ \E n \in 0..MaxParts :
          \E pieces \in [1..n -> DateParts] : dateInput = Concat(pieces)
    /\ yearResult = Null
    /\ formatted = EmptyString
    /\ pc = "format"
    /\ ProvenanceIdle
    /\ PageIdle
    /\ FetchIdle
    /\ SearchIdle

\* formatDate(dateStr)
FormatDate ==
    /\ pc = "format"
    /\ formatted' = formatDate(dateInput)
    /\ pc' = "formatted"
    /\ UNCHANGED <<dateInput, yearResult, provenanceVars, pageVars, fetchVars, searchVars>>

FormatNext == FormatDate

FormatSpec == FormatInit /\ [][FormatNext]_vars

(* What the claim about formatDate speaks of *)

DateFormatted == pc = "formatted"

\* the date part of a text: the text without its 'T'-separated time component
DatePartOf(text) ==
    LET len == CHOOSE n \in 0..Len(text) :
                  /\ \A i \in 1..n : text[i] # "T"
                  /\ n = Len(text) \/ text[n + 1] = "T"
    IN  SubSeq(text, 1, len)

\* the form of a text: its digits written as 9
FormOf(text) == [i \in DOMAIN text |-> IF text[i] \in Digits THEN "9" ELSE text[i]]

FormYearMonthDay == <<"9", "9", "9", "9", "-", "9", "9", "-", "9", "9">>
FormYearMonth == <<"9", "9", "9", "9", "-", "9", "9">>
FormYear == <<"9", "9", "9", "9">>

\* C22: formatDate drops a 'T'-separated time component and then returns a
\* bare YYYY date part as that YYYY, and returns its input exactly as it was
\* passed whenever the date part is not a YYYY-MM-DD, a YYYY-MM or a YYYY.
C22_YearAndPassThrough ==
    DateFormatted =>
        /\ FormOf(DatePartOf(dateInput)) = FormYear
              => formatted = DatePartOf(dateInput)
        /\ FormOf(DatePartOf(dateInput)) \notin {FormYearMonthDay, FormYearMonth, FormYear}
              => formatted = dateInput

\* '1838T02-31': the time component is dropped and the bare year returned
C22_Witness ==
    /\ DateFormatted
    /\ dateInput = <<"1", "8", "3", "8", "T", "0", "2", "-", "3", "1">>
    /\ formatted = <<"1", "8", "3", "8">>

-----------------------------------------------------------------------------
(* What the claims about the exported links speak of *)

\* the identity-link entries of the JSON-LD, none when sameAs is left out
SameAsEntries == IF sameAs = None THEN <<>> ELSE sameAs[1]

\* C24: the sameAs entries written by the JSON-LD exporter are the urls of the
\* external-link list computed for the same page: the same providers, the
\* same urls, in the same order.
C24_SameAsIsLinkList ==
    LinksRendered =>
        SameAsEntries = [i \in DOMAIN externalLinks |-> externalLinks[i].url]

\* C29: every link of the external-link list has a non-empty url.
C29_UrlNonEmpty ==
    LinksRendered =>
        \A i \in DOMAIN externalLinks : externalLinks[i].url # EmptyString

-----------------------------------------------------------------------------
(* ArtworkDetailPage: fetchArtwork as the route parameter changes *)

MaxFetches == 3

\* the artworks the route parameter names
ArtworkIds == {"a", "b"}

\* what the API answers for an artwork when the request succeeds
ArtworkOf(x) == [id |-> x]

ProvenanceOf(x) ==
    IF x = "a"
    THEN <<[id |-> 12, order |-> 1], [id |-> 11, order |-> 0]>>
    ELSE <<[id |-> 22, date |-> Date1889June], [id |-> 21, order |-> 0]>>

EnrichmentOf(x) == [artwork_id |-> x]

\* what a rejected artwork request carries: a response with status 404, a
\* response with another status, or no response at all
Rejections == {"404", "500", "network"}

ErrorText == "Failed to load artwork details. Please try again."

\* the call of fetchArtwork, made with `id` in the route: its statements up
\* to the first await
StartFetch(x) ==
    /\ loading' = TRUE
    /\ error' = None
    /\ notFound' = FALSE
    /\ fetches' = Append(fetches,
                         [id |-> x, pc |-> "getById", artwork |-> "pending",
                          provenance |-> "pending", enrichment |-> "pending"])

FetchInit ==
    /\ \E x \in ArtworkIds : id = Some(x)
    /\ loading = TRUE
    /\ error = None
    /\ notFound = FALSE
    /\ fetches = <<>>
    /\ artwork = None
    /\ provenance = <<>>
    /\ enrichment = None
    /\ provenanceResponse = [status |-> "rejected"]
    /\ externalLinks = <<>>
    /\ artistInfo = None
    /\ sameAs = None
    /\ pc = "mount"
    /\ YearIdle
    /\ SearchIdle

\* useEffect(() => { fetchArtwork(); }, [fetchArtwork]) after the first render
Mount ==
    /\ pc = "mount"
    /\ id # None
    /\ StartFetch(id[1])
    /\ pc' = "mounted"
    /\ UNCHANGED <<id, artwork, provenance, enrichment, provenanceResponse,
                   externalLinks, artistInfo, sameAs, yearVars, searchVars>>

\* the route changes to another artwork: the same component renders with the
\* new id, fetchArtwork is created anew and the effect calls it
Navigate(x) ==
    /\ pc = "mounted"
    /\ Len(fetches) < MaxFetches
    /\ id # Some(x)
    /\ id' = Some(x)
    /\ StartFetch(x)
    /\ UNCHANGED <<pc, artwork, provenance, enrichment, provenanceResponse,
                   externalLinks, artistInfo, sameAs, yearVars, searchVars>>

\* onRetry={fetchArtwork} of the error state
Retry ==
    /\ pc = "mounted"
    /\ Len(fetches) < MaxFetches
    /\ ~loading
    /\ ~notFound
    /\ error # None \/ artwork = None
    /\ id # None
    /\ StartFetch(id[1])
    /\ UNCHANGED <<pc, id, artwork, provenance, enrichment, provenanceResponse,
                   externalLinks, artistInfo, sameAs, yearVars, searchVars>>

\* await artworkApi.getById(id) resolves
ArtworkFulfilled(i) ==
    /\ fetches[i].pc = "getById"
    /\ artwork' = Some(ArtworkOf(fetches[i].id))
    /\ fetches' = [fetches EXCEPT ![i].pc = "allSettled", ![i].artwork = "fulfilled"]
    /\ UNCHANGED <<pc, id, loading, error, notFound, provenance, enrichment,
                   provenanceResponse, externalLinks, artistInfo, sameAs,
                   yearVars, searchVars>>

\* await artworkApi.getById(id) rejects: catch and finally
ArtworkRejected(i, rejection) ==
    /\ fetches[i].pc = "getById"
    /\ IF rejection = "404"
       THEN notFound' = TRUE /\ UNCHANGED error
       ELSE error' = Some(ErrorText) /\ UNCHANGED notFound
    /\ loading' = FALSE
    /\ fetches' = [fetches EXCEPT ![i].pc = "done", ![i].artwork = rejection]
    /\ UNCHANGED <<pc, id, artwork, provenance, enrichment, provenanceResponse,
                   externalLinks, artistInfo, sameAs, yearVars, searchVars>>

\* as if the two requests were awaited with Promise.all: a rejection of one
\* of them reaches the catch block
AllSettledOrThrow(i, provenanceStatus, enrichmentStatus) ==
    /\ fetches[i].pc = "allSettled"
    /\ IF provenanceStatus = "fulfilled" /\ enrichmentStatus = "fulfilled"
       THEN /\ provenance' = SortedCopy(ProvenanceOf(fetches[i].id)).result
            /\ enrichment' = Some(EnrichmentOf(fetches[i].id))
            /\ UNCHANGED error
       ELSE /\ error' = Some(ErrorText)
            /\ UNCHANGED <<provenance, enrichment>>
    /\ loading' = FALSE
    /\ fetches' = [fetches EXCEPT ![i].pc = "done",
                                  ![i].provenance = provenanceStatus,
                                  ![i].enrichment = enrichmentStatus]
    /\ UNCHANGED <<pc, id, notFound, artwork, provenanceResponse,
                   externalLinks, artistInfo, sameAs, yearVars, searchVars>>

\* await Promise.allSettled([getProvenance(id), getEnrichment(id)]) resolves:
\* the rest of the try block and finally
AllSettled(i, provenanceStatus, enrichmentStatus) ==
    /\ fetches[i].pc = "allSettled"
    /\ IF provenanceStatus = "fulfilled"
       THEN provenance' = SortedCopy(ProvenanceOf(fetches[i].id)).result
       ELSE UNCHANGED provenance
    /\ IF enrichmentStatus = "fulfilled"
       THEN enrichment' = Some(EnrichmentOf(fetches[i].id))
       ELSE UNCHANGED enrichment
    /\ loading' = FALSE
    /\ fetches' = [fetches EXCEPT ![i].pc = "done",
                                  ![i].provenance = provenanceStatus,
                                  ![i].enrichment = enrichmentStatus]
    /\ UNCHANGED <<pc, id, error, notFound, artwork, provenanceResponse,
                   externalLinks, artistInfo, sameAs, yearVars, searchVars>>

SettledStatuses == {"fulfilled", "rejected"}

FetchNext ==
    \/ Mount
    \/ \E x \in ArtworkIds : Navigate(x)
    \/ Retry
    \/ \E i \in DOMAIN fetches : ArtworkFulfilled(i)
    \/ \E i \in DOMAIN fetches : \E rejection \in Rejections : ArtworkRejected(i, rejection)
    \/ \E i \in DOMAIN fetches : \E p, e \in SettledStatuses : AllSettled(i, p, e)

FetchSpec == FetchInit /\ [][FetchNext]_vars

\* every HTTP request eventually settles
FetchFairness ==
    /\ WF_vars(Mount)
    /\ \A i \in 1..MaxFetches :
          /\ WF_vars(i \in DOMAIN fetches
                        /\ (ArtworkFulfilled(i)
                               \/ \E rejection \in Rejections : ArtworkRejected(i, rejection)))
          /\ WF_vars(i \in DOMAIN fetches /\ \E p, e \in SettledStatuses : AllSettled(i, p, e))

FetchFairSpec == FetchSpec /\ FetchFairness

-----------------------------------------------------------------------------
(* What the claims about the fetches of the detail page speak of *)

\* the provenance list of an artwork as the page is to show it
ShownProvenanceOf(x) ==
    IF x = "a"
    THEN <<[id |-> 11, order |-> 0], [id |-> 12, order |-> 1]>>
    ELSE <<[id |-> 21, order |-> 0], [id |-> 22, date |-> Date1889June]>>

\* the page displays an artwork
Displayed == ~loading /\ error = None /\ ~notFound /\ artwork # None

\* a fetch is still in flight
InFlight == \E i \in DOMAIN fetches : fetches[i].pc # "done"

\* every request made so far has settled
AllSettledNow == pc = "mounted" /\ ~InFlight

\* C23: when the artwork request has succeeded, the settling of the provenance
\* and enrichment requests, whichever of them failed, leaves the page out of
\* the error and not-found states: loading false, error null, notFound false,
\* the artwork set, and every part that was fetched is applied.
C23_PartialFailureTolerated ==
    [][ \A i \in DOMAIN fetches :
            (fetches[i].pc = "allSettled" /\ fetches'[i].pc = "done"
                    /\ error = None /\ ~notFound)
                => /\ ~loading'
                   /\ error' = None
                   /\ ~notFound'
                   /\ artwork' # None
                   /\ fetches'[i].provenance = "fulfilled"
                         => provenance' = ShownProvenanceOf(fetches[i].id)
                   /\ fetches'[i].enrichment = "fulfilled"
                         => enrichment' = Some(EnrichmentOf(fetches[i].id)) ]_vars

\* the only fetch got the artwork and the enrichment but not the provenance,
\* and the page displays the artwork with the enrichment
C23_Witness ==
    /\ Len(fetches) = 1
    /\ fetches[1].pc = "done"
    /\ fetches[1].artwork = "fulfilled"
    /\ fetches[1].provenance = "rejected"
    /\ fetches[1].enrichment = "fulfilled"
    /\ Displayed
    /\ artwork = Some(ArtworkOf(fetches[1].id))
    /\ enrichment = Some(EnrichmentOf(fetches[1].id))
    /\ provenance = <<>>

\* C25: whenever the page displays an artwork, the provenance list and the
\* enrichment it shows were fetched for that artwork or are empty / absent.
C25_DataOfDisplayedArtwork ==
    Displayed =>
        /\ provenance \in {<<>>, ShownProvenanceOf(artwork[1].id)}
        /\ enrichment \in {None, Some(EnrichmentOf(artwork[1].id))}

\* C26: once all requests have settled, the artwork, the provenance and the
\* enrichment held in state are those of the most recently requested id,
\* as far as the requests of that id succeeded.
C26_LatestIdWins ==
    (AllSettledNow /\ fetches[Len(fetches)].artwork = "fulfilled")
        => /\ artwork = Some(ArtworkOf(id[1]))
           /\ fetches[Len(fetches)].provenance = "fulfilled"
                 => provenance = ShownProvenanceOf(id[1])
           /\ fetches[Len(fetches)].enrichment = "fulfilled"
                 => enrichment = Some(EnrichmentOf(id[1]))

\* C27: notFound and error are never both set.
C27_NotFoundOrError == ~(notFound /\ error # None)

\* C28: every call of fetchArtwork eventually sets loading to false, and
\* loading is true for as long as any fetch is in flight.
C28_LoadingUntilSettled ==
    /\ \A i \in 1..MaxFetches :
          (i \in DOMAIN fetches) ~> (i \in DOMAIN fetches /\ fetches[i].pc = "done")
    /\ [](InFlight => loading)

-----------------------------------------------------------------------------
(* SearchPage: the URL parameters and the searches requested *)

MaxSearches == 3

\* const limit = 12
limit == 12

\* searchParams.get(name): null when the URL has no such parameter
Get(params, name) == IF name \in DOMAIN params THEN Some(params[name]) ELSE None

\* value || fallback, for a string or null value
OrText(value, fallback) == IF TruthyString(value) THEN value[1] ELSE fallback

\* the value of a run of digits
RECURSIVE DigitsValue(_)
DigitsValue(digits) ==
    IF digits = <<>> THEN 0
    ELSE DigitsValue(SubSeq(digits, 1, Len(digits) - 1)) * 10
             + DigitValue(digits[Len(digits)])

\* parseInt(text, 10): leading white space, an optional sign, then the longest
\* run of digits; NaN (None) when there is no digit
ParseInt(text) ==
    LET nonSpace == {i \in DOMAIN text : ~IsSpace(text[i])}
        start    == IF nonSpace = {} THEN Len(text) + 1 ELSE Min(nonSpace)
        signed   == start <= Len(text) /\ text[start] \in {"-", "+"}
        first    == IF signed THEN start + 1 ELSE start
        nonDigit == {i \in first..Len(text) : ~IsDigit(text[i])}
        last     == IF nonDigit = {} THEN Len(text) ELSE Min(nonDigit) - 1
    IN  IF last < first THEN None
        ELSE IF signed /\ text[start] = "-"
        THEN Some(0 - DigitsValue(SubSeq(text, first, last)))
        ELSE Some(DigitsValue(SubSeq(text, first, last)))

\* const page = Number.isNaN(parsedPage) || parsedPage < 1 ? 1 : parsedPage
page(params) ==
    LET parsedPage == ParseInt(OrText(Get(params, "page"), <<"1">>))
    IN  IF parsedPage = None \/ parsedPage[1] < 1 THEN 1 ELSE parsedPage[1]

\* the filters of the search page (one of its five, which are all alike)
FilterTypes == {"artist"}

\* searchParams.get(type) || undefined, for every filter
FiltersOf(params) ==
    [type \in {t \in FilterTypes : TruthyString(Get(params, t))} |-> params[type]]

\* Math.ceil(searchResponse.total / limit), 0 without a response
totalPages == IF searchResponse = None THEN 0 ELSE (searchResponse[1].total + limit - 1) \div limit

\* updateUrlParams(query, newFilters, newPage): the parameters it sets
updateUrlParams(query, newFilters, newPage) ==
    LET wanted == [name \in {"q", "page"} \cup FilterTypes |->
                      CASE name = "q" -> IF query # EmptyString THEN Some(query) ELSE None
                        [] name = "page" ->
                              IF newPage > 1 THEN Some(NumberText(newPage)) ELSE None
                        [] OTHER ->
                              IF TruthyString(Get(newFilters, name))
                              THEN Some(newFilters[name]) ELSE None]
    IN  ObjectOf(wanted)

\* the parameters handleSortChange sets: the current ones, with sort set to
\* 'date' or removed
sortUrlParams(params, newSort) ==
    IF newSort = SortDate
    THEN [name \in DOMAIN params \cup {"sort"} |->
             IF name = "sort" THEN SortDate ELSE params[name]]
    ELSE [name \in DOMAIN params \ {"sort"} |-> params[name]]

\* performSearch up to its await: the request of searchApi.search
performSearch(query, currentFilters, currentPage, currentSort) ==
    /\ isSearching' = TRUE
    /\ searchError' = None
    /\ searches' = Append(searches,
                          [query |-> query, filters |-> currentFilters,
                           page |-> currentPage, sort |-> currentSort,
                           status |-> "pending"])

\* the texts of the model: a query, a blank query, a filter value
QueryText == <<"m">>
BlankQuery == <<" ">>
FilterText == <<"v">>

\* the values the page parameter of the URL the page is opened with may have
\* ('3', '-2', ' 2x')
PageTexts == { <<"3">>, <<"-", "2">>, <<" ", "2", "x">> }

\* the totals a response may carry: no result, three pages
Totals == {0, 36}

searchOtherVars == <<provenanceVars, pc, pageVars, yearVars, fetchVars>>

SearchInit ==
    /\ \E q \in {None, Some(QueryText)} :
       \E p \in {None} \cup {Some(t) : t \in PageTexts} :
       \E o \in {None, Some(SortDate)} :
       \E a \in {None, Some(FilterText)} :
          searchParams = ObjectOf([q |-> q, page |-> p, sort |-> o, artist |-> a])
    /\ searchQuery = OrText(Get(searchParams, "q"), EmptyString)
    /\ sortBy = OrText(Get(searchParams, "sort"), SortTitle)
    /\ filters = FiltersOf(searchParams)
    /\ searchResponse = None
    /\ isSearching = FALSE
    /\ searchError = None
    /\ searches = <<>>
    /\ pc = "mount"
    /\ ProvenanceIdle
    /\ PageIdle
    /\ YearIdle
    /\ FetchIdle

\* the effect of the first render
SearchMount ==
    /\ pc = "mount"
    /\ LET q == OrText(Get(searchParams, "q"), EmptyString)
       IN  /\ searchQuery' = q
           /\ performSearch(q, filters, page(searchParams), sortBy)
    /\ pc' = "mounted"
    /\ UNCHANGED <<searchParams, filters, sortBy, searchResponse,
                   provenanceVars, pageVars, yearVars, fetchVars>>

\* onChange of the search field
TypeQuery(text) ==
    /\ pc = "mounted"
    /\ searchQuery # text
    /\ searchQuery' = text
    /\ UNCHANGED <<searchParams, filters, sortBy, searchResponse, isSearching,
                   searchError, searches, searchOtherVars>>

\* the request of a search resolves
SearchFulfilled(i, total) ==
    /\ searches[i].status = "pending"
    /\ searchResponse' = Some([total |-> total, page |-> searches[i].page])
    /\ isSearching' = FALSE
    /\ searches' = [searches EXCEPT ![i].status = "fulfilled"]
    /\ UNCHANGED <<searchParams, searchQuery, filters, sortBy, searchError,
                   searchOtherVars>>

\* the request of a search rejects
SearchRejected(i) ==
    /\ searches[i].status = "pending"
    /\ searchError' = Some("Failed to search artworks. Please try again.")
    /\ searchResponse' = None
    /\ isSearching' = FALSE
    /\ searches' = [searches EXCEPT ![i].status = "rejected"]
    /\ UNCHANGED <<searchParams, searchQuery, filters, sortBy, searchOtherVars>>

\* the results and their controls are rendered
ResultsShown ==
    /\ ~isSearching
    /\ searchResponse # None
    /\ searchResponse[1].total > (searchResponse[1].page - 1) * limit

\* the pages the pagination controls offer
OfferedPages ==
    LET current == page(searchParams)
    IN  {current - 1 : x \in {y \in {0} : current > 1}}
            \cup {1 : x \in {y \in {0} : current > 2}}
            \cup {current + 1 : x \in {y \in {0} : current < totalPages}}
            \cup {totalPages : x \in {y \in {0} : current < totalPages - 1}}

goToPage(newPage) ==
    /\ pc = "mounted"
    /\ Len(searches) < MaxSearches
    /\ ResultsShown
    /\ totalPages > 1
    /\ newPage \in OfferedPages
    /\ searchParams' = updateUrlParams(searchQuery, filters, newPage)
    /\ performSearch(searchQuery, filters, newPage, sortBy)
    /\ UNCHANGED <<searchQuery, filters, sortBy, searchResponse, searchOtherVars>>

\* String.prototype.trim() leaves nothing
TrimsToEmpty(text) == \A i \in DOMAIN text : IsSpace(text[i])

handleSearch ==
    /\ pc = "mounted"
    /\ Len(searches) < MaxSearches
    /\ ~isSearching
    /\ ~(TrimsToEmpty(searchQuery) /\ DOMAIN filters = {})
    /\ searchParams' = updateUrlParams(searchQuery, filters, 1)
    /\ performSearch(searchQuery, filters, 1, sortBy)
    /\ UNCHANGED <<searchQuery, filters, sortBy, searchResponse, searchOtherVars>>

\* a filter is set to a value of the facets, or unset
handleFilterChange(filterType, value) ==
    /\ pc = "mounted"
    /\ Len(searches) < MaxSearches
    /\ searchResponse # None
    /\ Get(filters, filterType) # value
    /\ LET newFilters == ObjectOf([type \in FilterTypes |->
                                      IF type = filterType THEN value
                                      ELSE Get(filters, type)])
       IN  /\ filters' = newFilters
           /\ searchParams' = updateUrlParams(searchQuery, newFilters, 1)
           /\ performSearch(searchQuery, newFilters, 1, sortBy)
    /\ UNCHANGED <<searchQuery, sortBy, searchResponse, searchOtherVars>>

clearFilters ==
    /\ pc = "mounted"
    /\ Len(searches) < MaxSearches
    /\ searchResponse # None \/ isSearching
    /\ DOMAIN filters # {}
    /\ filters' = <<>>
    /\ searchParams' = updateUrlParams(searchQuery, <<>>, 1)
    /\ performSearch(searchQuery, <<>>, 1, sortBy)
    /\ UNCHANGED <<searchQuery, sortBy, searchResponse, searchOtherVars>>

handleSortChange(newSort) ==
    /\ pc = "mounted"
    /\ Len(searches) < MaxSearches
    /\ ResultsShown
    /\ newSort # sortBy
    /\ sortBy' = newSort
    /\ searchParams' = sortUrlParams(searchParams, newSort)
    /\ performSearch(searchQuery, filters, 1, newSort)
    /\ UNCHANGED <<searchQuery, filters, searchResponse, searchOtherVars>>

SearchNext ==
    \/ SearchMount
    \/ \E text \in {EmptyString, BlankQuery, QueryText} : TypeQuery(text)
    \/ \E i \in DOMAIN searches : \E total \in Totals : SearchFulfilled(i, total)
    \/ \E i \in DOMAIN searches : SearchRejected(i)
    \/ \E newPage \in 1..((Max(Totals) + limit - 1) \div limit) : goToPage(newPage)
    \/ handleSearch
    \/ \E type \in FilterTypes : \E value \in {None, Some(FilterText)} :
          handleFilterChange(type, value)
    \/ clearFilters
    \/ \E newSort \in {SortTitle, SortDate} : handleSortChange(newSort)

SearchSpec == SearchInit /\ [][SearchNext]_vars

(* What the claim about the search page speaks of *)

\* the page number of the most recently requested search results
RequestedPage == searches[Len(searches)].page

\* C30: after any sequence of searches, filter changes, sort changes and page
\* navigations, the page number the pagination controls use (the page
\* parameter of the URL, 1 by default and never below 1) is the page number of
\* the most recently requested search results.
C30_PageIsRequestedPage ==
    (pc = "mounted" /\ searches # <<>>) => page(searchParams) = RequestedPage

=============================================================================
